---- MODULE Spec2Model ----
(***************************************************************************)
(* Model of the BuddyFS disk-image scanners: Simple_BuddyFS.py (MBR) and   *)
(* Simple_ForGPT.py (GPT).  One behaviour is one run of main(): the        *)
(* partition table is decoded, then for each descriptor the blocks are     *)
(* read, classified/hashed and saved, and finally the charts are drawn.    *)
(*                                                                         *)
(* The disk image is a file: a length and its bytes.  It is kept sparsely  *)
(* (len, and the offsets that hold a nonzero byte); every read goes        *)
(* through FileRead, which returns the bytes a Python f.read returns.      *)
(* Decoded integers are kept below 2^31 by the inputs drawn in Init.       *)
(***************************************************************************)
EXTENDS Integers, Sequences, FiniteSets, TLC

VARIABLES
    variant,        \* which script runs: "MBR" (Simple_BuddyFS) or "GPT" (Simple_ForGPT)
    image,          \* the file at args.image_path
    block_size,     \* args.block_size
    pc,             \* position of main()
    err,            \* the exception that ended main(), or "none"
    partitions,     \* main's local: the decoded descriptors
    idx,            \* main's loop index (0-based, as enumerate gives it)
    blocks,         \* main's local: blocks read for the current partition
    data_blocks,    \* main's local
    empty_blocks,   \* main's local
    hashes,         \* main's local
    partition_data, \* main's local: the summaries
    output_hashes,  \* main's local: partition id -> digest list
    files,          \* the output directory tree: directory -> (file index -> content)
    io              \* every seek/read the run made on the image, in order

vars == <<variant, image, block_size, pc, err, partitions, idx, blocks,
          data_blocks, empty_blocks, hashes, partition_data, output_hashes,
          files, io>>

-----------------------------------------------------------------------------
(* Bytes, slices, struct.unpack *)

Min(a, b) == IF a < b THEN a ELSE b

Max(a, b) == IF a > b THEN a ELSE b

\* Python s[a:b] for 0 <= a <= b: clamped to the length, never an error.
Slice(s, a, b) == SubSeq(s, Min(a, Len(s)) + 1, Min(b, Len(s)))

\* struct.unpack of a little-endian unsigned field: the value of the bytes.
RECURSIVE LittleEndian(_)
LittleEndian(b) ==
    IF b = <<>> THEN 0 ELSE b[1] + 256 * LittleEndian(Tail(b))

\* The byte of the file at absolute offset o (o < image.len).
ByteAt(img, o) == IF o \in DOMAIN img.nz THEN img.nz[o] ELSE 0

\* f.seek(pos); f.read(n): the bytes available from pos, at most n of them.
FileRead(img, pos, n) ==
    [i \in 1..Min(n, Max(img.len - pos, 0)) |-> ByteAt(img, pos + i - 1)]

Seek(off) == <<"seek", off>>

Read(n) == <<"read", n>>

-----------------------------------------------------------------------------
(* Simple_BuddyFS.py: read_partition_table (MBR) *)

\* MbrSlots with the emission test on the wrong field (start_sector).
RECURSIVE MbrSlotsEmitOnStart(_, _, _)
MbrSlotsEmitOnStart(mbr, i, acc) ==
    IF i = 4 THEN [err |-> "none", partitions |-> acc]
    ELSE
      LET entry_offset == 446 + i * 16
          entry == Slice(mbr, entry_offset, entry_offset + 16)
      IN  IF Len(entry) = 0
            THEN [err |-> "IndexError", partitions |-> <<>>]
          ELSE IF Len(Slice(entry, 8, 12)) # 4 \/ Len(Slice(entry, 12, 16)) # 4
            THEN [err |-> "struct.error", partitions |-> <<>>]
          ELSE
            LET status == entry[1]
                start_sector == LittleEndian(Slice(entry, 8, 12))
                total_sectors == LittleEndian(Slice(entry, 12, 16))
            IN  MbrSlotsEmitOnStart(mbr, i + 1,
                         IF start_sector > 0
                           THEN Append(acc, [status |-> status,
                                             start_sector |-> start_sector,
                                             total_sectors |-> total_sectors])
                           ELSE acc)

\* The for-loop over the four slots, from slot i on.  entry[0] on an empty
\* slice raises IndexError; struct.unpack on a slice that is not 4 bytes
\* raises struct.error.  A raise loses the list built so far.
RECURSIVE MbrSlots(_, _, _)
MbrSlots(mbr, i, acc) ==
    IF i = 4 THEN [err |-> "none", partitions |-> acc]
    ELSE
      LET entry_offset == 446 + i * 16
          entry == Slice(mbr, entry_offset, entry_offset + 16)
      IN  IF Len(entry) = 0
            THEN [err |-> "IndexError", partitions |-> <<>>]
          ELSE IF Len(Slice(entry, 8, 12)) # 4 \/ Len(Slice(entry, 12, 16)) # 4
            THEN [err |-> "struct.error", partitions |-> <<>>]
          ELSE
            LET status == entry[1]
                start_sector == LittleEndian(Slice(entry, 8, 12))
                total_sectors == LittleEndian(Slice(entry, 12, 16))
            IN  MbrSlots(mbr, i + 1,
                         IF total_sectors > 0
                           THEN Append(acc, [status |-> status,
                                             start_sector |-> start_sector,
                                             total_sectors |-> total_sectors])
                           ELSE acc)

MbrReadPartitionTable(img) ==
    LET r == MbrSlots(FileRead(img, 0, 512), 0, <<>>)
    IN  [err |-> r.err, partitions |-> r.partitions,
         io |-> <<Seek(0), Read(512)>>]

-----------------------------------------------------------------------------
(* Simple_ForGPT.py: read_partition_table (GPT) *)

\* bytes.decode('utf-8'), strict: the code points, or a failure
\* (UnicodeDecodeError) on an invalid start byte, an invalid continuation
\* byte, an overlong or surrogate form, or a sequence cut by the end.
IsCont(s, k, lo, hi) == Len(s) >= k /\ s[k] >= lo /\ s[k] <= hi

RECURSIVE Utf8Decode(_)
Utf8Decode(s) ==
    IF s = <<>> THEN [ok |-> TRUE, cps |-> <<>>]
    ELSE
      LET c == s[1]
          n == IF c < 128 THEN 1
               ELSE IF c >= 194 /\ c <= 223 THEN 2
               ELSE IF c >= 224 /\ c <= 239 THEN 3
               ELSE IF c >= 240 /\ c <= 244 THEN 4
               ELSE 0
          lo2 == IF c = 224 THEN 160 ELSE IF c = 240 THEN 144 ELSE 128
          hi2 == IF c = 237 THEN 159 ELSE IF c = 244 THEN 143 ELSE 191
          wellFormed ==
              /\ n > 0
              /\ n >= 2 => IsCont(s, 2, lo2, hi2)
              /\ n >= 3 => IsCont(s, 3, 128, 191)
              /\ n >= 4 => IsCont(s, 4, 128, 191)
          cp == IF n = 1 THEN c
                ELSE IF n = 2 THEN (c - 192) * 64 + (s[2] - 128)
                ELSE IF n = 3 THEN (c - 224) * 4096 + (s[2] - 128) * 64 + (s[3] - 128)
                ELSE (c - 240) * 262144 + (s[2] - 128) * 4096
                     + (s[3] - 128) * 64 + (s[4] - 128)
      IN  IF ~wellFormed THEN [ok |-> FALSE, cps |-> <<>>]
          ELSE LET rest == Utf8Decode(SubSeq(s, n + 1, Len(s)))
               IN  IF rest.ok THEN [ok |-> TRUE, cps |-> <<cp>> \o rest.cps]
                   ELSE rest

\* The str "EFI PART", as code points.
EFI_PART == <<69, 70, 73, 32, 80, 65, 82, 84>>

\* The for-loop over the entries, from entry i on; pos is the file position.
\* struct.unpack("<Q", ...) on a slice that is not 8 bytes raises struct.error.
RECURSIVE GptEntries(_, _, _, _, _, _, _)
GptEntries(img, pos, i, num_partition_entries, partition_entry_size, acc, log) ==
    IF i >= num_partition_entries
      THEN [err |-> "none", partitions |-> acc, io |-> log]
    ELSE
      LET entry == FileRead(img, pos, partition_entry_size)
          log2 == Append(log, Read(partition_entry_size))
      IN  IF Len(Slice(entry, 32, 40)) # 8 \/ Len(Slice(entry, 40, 48)) # 8
            THEN [err |-> "struct.error", partitions |-> <<>>, io |-> log2]
          ELSE
            LET start_lba == LittleEndian(Slice(entry, 32, 40))
                end_lba == LittleEndian(Slice(entry, 40, 48))
                total_sectors == end_lba - start_lba + 1
            IN  GptEntries(img, pos + Len(entry), i + 1, num_partition_entries,
                           partition_entry_size,
                           IF start_lba # 0 /\ end_lba # 0
                             THEN Append(acc, [start_sector |-> start_lba,
                                               total_sectors |-> total_sectors])
                             ELSE acc,
                           log2)

GptReadPartitionTable(img) ==
    LET gpt_header == FileRead(img, 512, 92)
        log == <<Seek(512), Read(92)>>
        signature == Utf8Decode(Slice(gpt_header, 0, 8))
        fail(e) == [err |-> e, partitions |-> <<>>, io |-> log]
    IN  IF ~signature.ok THEN fail("UnicodeDecodeError")
        ELSE IF signature.cps # EFI_PART THEN fail("ValueError: Invalid GPT header")
        ELSE IF \/ Len(Slice(gpt_header, 72, 80)) # 8
                \/ Len(Slice(gpt_header, 80, 84)) # 4
                \/ Len(Slice(gpt_header, 84, 88)) # 4
          THEN fail("struct.error")
        ELSE
          LET partition_entry_lba == LittleEndian(Slice(gpt_header, 72, 80))
              num_partition_entries == LittleEndian(Slice(gpt_header, 80, 84))
              partition_entry_size == LittleEndian(Slice(gpt_header, 84, 88))
          IN  GptEntries(img, partition_entry_lba * 512, 0, num_partition_entries,
                         partition_entry_size, <<>>,
                         Append(log, Seek(partition_entry_lba * 512)))

-----------------------------------------------------------------------------
(* read_blocks, compute_sha256, extract_data_blocks, save_blocks (both scripts) *)

\* The for-loop of read_blocks: `left` iterations remain (range of a
\* negative number is empty); only an empty read breaks the loop.
RECURSIVE ReadLoop(_, _, _, _, _, _)
ReadLoop(img, pos, left, bs, acc, log) ==
    IF left <= 0 THEN [blocks |-> acc, io |-> log]
    ELSE
      LET block == FileRead(img, pos, bs)
          log2 == Append(log, Read(bs))
      IN  IF Len(block) = 0 THEN [blocks |-> acc, io |-> log2]
          ELSE ReadLoop(img, pos + Len(block), left - 1, bs,
                        Append(acc, block), log2)

read_blocks(img, start_sector, num_sectors, bs) ==
    ReadLoop(img, start_sector * bs, num_sectors, bs, <<>>,
             <<Seek(start_sector * bs)>>)

\* hashlib.sha256(block).hexdigest(): a function of the bytes alone, taken
\* as injective (the digest is named by the message it digests).
compute_sha256(block) == <<"sha256", block>>

\* bytes.strip(b'\x00'): drop the zero bytes at both ends.
RECURSIVE LStrip(_)
LStrip(b) == IF b # <<>> /\ b[1] = 0 THEN LStrip(Tail(b)) ELSE b

RECURSIVE RStrip(_)
RStrip(b) ==
    IF b # <<>> /\ b[Len(b)] = 0 THEN RStrip(SubSeq(b, 1, Len(b) - 1)) ELSE b

Strip(b) == RStrip(LStrip(b))

\* IsDataBlock looking at the first byte only.
IsDataBlockFirstByte(block) == block # <<>> /\ block[1] # 0

\* The truth value of block.strip(b'\x00').
IsDataBlock(block) == Strip(block) # <<>>

RECURSIVE ExtractLoop(_, _)
ExtractLoop(bl, acc) ==
    IF bl = <<>> THEN acc
    ELSE LET block == Head(bl)
         IN  ExtractLoop(Tail(bl),
                 IF IsDataBlock(block)
                   THEN [acc EXCEPT !.data_blocks = Append(@, block),
                                    !.hashes = Append(@, compute_sha256(block))]
                   ELSE [acc EXCEPT !.empty_blocks = @ + 1])

extract_data_blocks(bl) ==
    ExtractLoop(bl, [data_blocks |-> <<>>, empty_blocks |-> 0, hashes |-> <<>>])

\* save_blocks: makedirs(exist_ok) then block_i.bin written for each i;
\* files already in the directory under other names stay.
save_blocks(fs, dir, dblocks) ==
    LET old == IF dir \in DOMAIN fs THEN fs[dir] ELSE <<>>
        new == [i \in DOMAIN old \cup (0..(Len(dblocks) - 1)) |->
                   IF i < Len(dblocks) THEN dblocks[i + 1] ELSE old[i]]
    IN  [d \in DOMAIN fs \cup {0, dir} |->
            IF d = dir THEN new ELSE IF d \in DOMAIN fs THEN fs[d] ELSE <<>>]

-----------------------------------------------------------------------------
(* The inputs: disk images built field by field, then cut to a length *)

\* Blocks of content the images carry in their data region.
NBlocks == 3

\* The sector count of the largest partition a table declares.
MaxSectors == 3

\* Entries a GPT entry array carries.
MaxEntries == 2

BlockSizes == {3, 4}

RECURSIVE Pack(_, _)
Pack(n, w) == IF w = 0 THEN <<>> ELSE <<n % 256>> \o Pack(n \div 256, w - 1)

Zeros(n) == [i \in 1..n |-> 0]

\* The nonzero bytes of `bytes` laid at offset off.
NzOf(off, bytes) ==
    [o \in {off + j - 1 : j \in {k \in 1..Len(bytes) : bytes[k] # 0}} |->
        bytes[o - off + 1]]

RECURSIVE Lay(_)
Lay(pieces) ==
    IF pieces = <<>> THEN [o \in {} |-> 0]
    ELSE NzOf(Head(pieces)[1], Head(pieces)[2]) @@ Lay(Tail(pieces))

\* The file of length len holding the pieces <<offset, bytes>>, zero elsewhere.
MkImage(len, pieces) ==
    LET nz == Lay(pieces)
    IN  [len |-> len, nz |-> [o \in {x \in DOMAIN nz : x < len} |-> nz[o]]]

FillKinds == {"zero", "ones", "tail"}

Fill(kind, bs) ==
    [i \in 1..bs |-> IF kind = "ones" THEN 255
                     ELSE IF kind = "tail" /\ i = bs THEN 1 ELSE 0]

\* The data region: block k of the region has the k-th fill.
RECURSIVE Region(_, _)
Region(fills, bs) ==
    IF fills = <<>> THEN <<>> ELSE Fill(Head(fills), bs) \o Region(Tail(fills), bs)

AllFills == [1..NBlocks -> FillKinds]

SomeFills == [k \in 1..NBlocks |-> IF k = 1 THEN "ones" ELSE IF k = 2 THEN "zero" ELSE "tail"]

\* First sector of the data region: the first one at or after byte `from`.
BaseSector(from, bs) == (from + bs - 1) \div bs

(* MBR images *)

MbrSlotKinds == {"unused", "boot", "plain", "zerocnt", "beyond"}

MbrEntryBytes(kind, B) ==
    LET e(status, start, count) ==
            <<status, 1, 1, 0, 131, 254, 255, 255>> \o Pack(start, 4) \o Pack(count, 4)
    IN  CASE kind = "unused"  -> Zeros(16)
          [] kind = "boot"    -> e(128, B, MaxSectors)
          [] kind = "plain"   -> e(0, B + 1, MaxSectors)
          [] kind = "zerocnt" -> e(128, B, 0)
          [] kind = "beyond"  -> e(0, B + NBlocks + 2, 1)

MbrFull(bs) == BaseSector(512, bs) * bs + NBlocks * bs

MbrImage(table, bootsig, fills, bs, len) ==
    MkImage(len,
        <<  <<0, <<235, 60, 144>> >>,
            <<446, MbrEntryBytes(table[1], BaseSector(512, bs))>>,
            <<462, MbrEntryBytes(table[2], BaseSector(512, bs))>>,
            <<478, MbrEntryBytes(table[3], BaseSector(512, bs))>>,
            <<494, MbrEntryBytes(table[4], BaseSector(512, bs))>>,
            <<510, bootsig>>,
            <<BaseSector(512, bs) * bs, Region(fills, bs)>> >>)

BootSigs == {<<85, 170>>, <<0, 0>>}

SomeTables == {<<"boot", "unused", "plain", "unused">>,
               <<"unused", "zerocnt", "unused", "boot">>}

MbrInputsOf(bs) ==
    LET In(img) == [variant |-> "MBR", image |-> img, block_size |-> bs]
    IN  \* every table, on the full image
        {In(MbrImage(t, <<85, 170>>, SomeFills, bs, MbrFull(bs))) :
            t \in [1..4 -> MbrSlotKinds]}
        \cup
        \* every content and every length of the data region
        {In(MbrImage(t, sig, fills, bs, len)) :
            t \in SomeTables, sig \in BootSigs, fills \in AllFills,
            len \in 512..MbrFull(bs)}
        \cup
        \* every length of a cut boot sector
        {In(MbrImage(t, <<85, 170>>, SomeFills, bs, len)) :
            t \in SomeTables, len \in 0..511}

MbrInputs == UNION {MbrInputsOf(bs) : bs \in BlockSizes}

(* GPT images *)

GptEntryKinds ==
    {"unused", "normal", "single", "startzero", "endzero", "inverted", "beyond"}

\* start_lba and end_lba of an entry of each kind; B is the data region's first sector.
GptLbas(kind, B) ==
    CASE kind = "unused"    -> <<0, 0>>
      [] kind = "normal"    -> <<B, B + MaxSectors - 1>>
      [] kind = "single"    -> <<B + 1, B + 1>>
      [] kind = "startzero" -> <<0, B + 1>>
      [] kind = "endzero"   -> <<B, 0>>
      [] kind = "inverted"  -> <<B + 2, B>>
      [] kind = "beyond"    -> <<B + NBlocks + 2, B + NBlocks + 3>>

\* A 128-byte entry: type GUID, unique GUID, start_lba, end_lba, attributes, name.
GptEntryBytes(kind, B) ==
    [i \in 1..32 |-> IF kind = "unused" THEN 0 ELSE 160 + (i % 16)]
    \o Pack(GptLbas(kind, B)[1], 8) \o Pack(GptLbas(kind, B)[2], 8)
    \o Zeros(8) \o (IF kind = "unused" THEN Zeros(72) ELSE <<112, 0, 49, 0>> \o Zeros(68))

RECURSIVE GptArray(_, _, _)
GptArray(kinds, B, size) ==
    IF kinds = <<>> THEN <<>>
    ELSE SubSeq(GptEntryBytes(Head(kinds), B) \o Zeros(size), 1, size)
         \o GptArray(Tail(kinds), B, size)

\* The 92-byte header: signature, revision, header size, ..., then the three
\* fields the decoder reads.
GptHeaderBytes(sig, lba, num, size) ==
    sig \o <<0, 0, 1, 0, 92, 0, 0, 0>> \o Zeros(8) \o Pack(1, 8) \o Zeros(40)
    \o Pack(lba, 8) \o Pack(num, 4) \o Pack(size, 4) \o <<7, 3, 0, 0>>

\* The data region starts after the largest entry array the images carry.
GptDataStart == 1024 + (MaxEntries + 1) * 128

GptFull(bs) == BaseSector(GptDataStart, bs) * bs + NBlocks * bs

GptImage(sig, lba, num, size, kinds, fills, bs, len) ==
    MkImage(len,
        <<  <<0, <<235, 60, 144>> >>,
            <<510, <<85, 170>> >>,
            <<512, GptHeaderBytes(sig, lba, num, size)>>,
            <<1024, GptArray(kinds, BaseSector(GptDataStart, bs), size)>>,
            <<BaseSector(GptDataStart, bs) * bs, Region(fills, bs)>> >>)

\* "EFI PART", a wrong ASCII signature, the MBR-only disk (zeros), bytes that
\* are not UTF-8, a multi-byte form cut by the slice, and a two-byte character.
GptSigs == {<<69, 70, 73, 32, 80, 65, 82, 84>>,
            <<69, 70, 73, 32, 80, 65, 82, 88>>,
            <<0, 0, 0, 0, 0, 0, 0, 0>>,
            <<255, 255, 255, 255, 255, 255, 255, 255>>,
            <<69, 70, 73, 32, 80, 65, 82, 195>>,
            <<69, 70, 73, 32, 80, 65, 195, 169>>}

GptKindSeqs == UNION {[1..n -> GptEntryKinds] : n \in 0..MaxEntries}

SomeKinds == {<<"normal", "single">>, <<"inverted", "normal">>}

GptInputsOf(bs) ==
    LET In(img) == [variant |-> "GPT", image |-> img, block_size |-> bs]
        ok == <<69, 70, 73, 32, 80, 65, 82, 84>>
    IN  \* every entry array, on the full image
        {In(GptImage(ok, 2, Len(k), 128, k, SomeFills, bs, GptFull(bs))) :
            k \in GptKindSeqs}
        \cup
        \* every header: where the array is, how many entries, of what size
        {In(GptImage(ok, lba, num, size, k, SomeFills, bs, len)) :
            lba \in {0, 2, 3}, num \in 0..(MaxEntries + 1),
            size \in {0, 40, 47, 48, 56, 128}, k \in SomeKinds,
            len \in {1024 + 47, 1024 + 128 + 48, GptFull(bs)}}
        \cup
        \* every signature and every length of a cut header
        {In(GptImage(sig, 2, 2, 128, k, SomeFills, bs, len)) :
            sig \in GptSigs, k \in {<<"normal", "single">>},
            len \in {0, 100} \cup (512..604) \cup {GptFull(bs)}}
        \cup
        \* every content and every length of the data region
        {In(GptImage(ok, 2, 2, 128, k, fills, bs, len)) :
            k \in SomeKinds, fills \in AllFills,
            len \in (GptFull(bs) - NBlocks * bs)..GptFull(bs)}

GptInputs == UNION {GptInputsOf(bs) : bs \in BlockSizes}

Inputs == MbrInputs \cup GptInputs

-----------------------------------------------------------------------------
(* main() *)

Init ==
    /\ \E in \in Inputs :
          /\ variant = in.variant
          /\ image = in.image
          /\ block_size = in.block_size
    /\ pc = "table"
    /\ err = "none"
    /\ partitions = <<>>
    /\ idx = 0
    /\ blocks = <<>>
    /\ data_blocks = <<>>
    /\ empty_blocks = 0
    /\ hashes = <<>>
    /\ partition_data = <<>>
    /\ output_hashes = <<>>
    /\ files = [d \in {} |-> <<>>]
    /\ io = <<>>

read_partition_table(v, img) ==
    IF v = "MBR" THEN MbrReadPartitionTable(img) ELSE GptReadPartitionTable(img)

\* DecodeTable with the decoder's exception caught and an empty table used.
DecodeTableSwallow ==
    /\ pc = "table"
    /\ LET r == read_partition_table(variant, image)
       IN  /\ io' = io \o r.io
           /\ err' = "none"
           /\ partitions' = r.partitions
           /\ pc' = IF r.partitions = <<>> THEN "visualize" ELSE "read"
    /\ UNCHANGED <<variant, image, block_size, idx, blocks, data_blocks,
                   empty_blocks, hashes, partition_data, output_hashes, files>>

\* partitions = read_partition_table(image_path): an exception ends main().
DecodeTable ==
    /\ pc = "table"
    /\ LET r == read_partition_table(variant, image)
       IN  /\ io' = io \o r.io
           /\ err' = r.err
           /\ partitions' = r.partitions
           /\ pc' = IF r.err # "none" THEN "failed"
                    ELSE IF r.partitions = <<>> THEN "visualize" ELSE "read"
    /\ UNCHANGED <<variant, image, block_size, idx, blocks, data_blocks,
                   empty_blocks, hashes, partition_data, output_hashes, files>>

\* ReadBlocks reading the first descriptor's range on every iteration.
ReadBlocksFirstDescriptor ==
    /\ pc = "read"
    /\ LET partition == partitions[1]
           r == read_blocks(image, partition.start_sector,
                            partition.total_sectors, block_size)
       IN  /\ blocks' = r.blocks
           /\ io' = io \o r.io
    /\ pc' = "extract"
    /\ UNCHANGED <<variant, image, block_size, err, partitions, idx, data_blocks,
                   empty_blocks, hashes, partition_data, output_hashes, files>>

\* blocks = read_blocks(image_path, start_sector, num_sectors, block_size)
ReadBlocks ==
    /\ pc = "read"
    /\ LET partition == partitions[idx + 1]
           r == read_blocks(image, partition.start_sector,
                            partition.total_sectors, block_size)
       IN  /\ blocks' = r.blocks
           /\ io' = io \o r.io
    /\ pc' = "extract"
    /\ UNCHANGED <<variant, image, block_size, err, partitions, idx, data_blocks,
                   empty_blocks, hashes, partition_data, output_hashes, files>>

\* data_blocks, empty_blocks, hashes = extract_data_blocks(blocks), then the
\* summary is appended and the digests filed under the partition's id.
ExtractDataBlocks ==
    /\ pc = "extract"
    /\ LET r == extract_data_blocks(blocks)
           partition == partitions[idx + 1]
       IN  /\ data_blocks' = r.data_blocks
           /\ empty_blocks' = r.empty_blocks
           /\ hashes' = r.hashes
           /\ partition_data' =
                 Append(partition_data,
                        [partition_id |-> idx + 1,
                         start_sector |-> partition.start_sector,
                         total_sectors |-> partition.total_sectors,
                         data_blocks |-> Len(r.data_blocks),
                         empty_blocks |-> r.empty_blocks])
           /\ output_hashes' = Append(output_hashes, r.hashes)
    /\ pc' = "save"
    /\ UNCHANGED <<variant, image, block_size, err, partitions, idx, blocks,
                   files, io>>

\* save_blocks(data_blocks, f"{output_dir}/partition_{idx + 1}_blocks"), then
\* the loop goes to the next descriptor.
SaveBlocks ==
    /\ pc = "save"
    /\ files' = save_blocks(files, idx + 1, data_blocks)
    /\ idx' = idx + 1
    /\ pc' = IF idx + 1 < Len(partitions) THEN "read" ELSE "visualize"
    /\ UNCHANGED <<variant, image, block_size, err, partitions, blocks,
                   data_blocks, empty_blocks, hashes, partition_data,
                   output_hashes, io>>

\* visualize_partition_data(...): the charts go to output_dir, which is made.
Visualize ==
    /\ pc = "visualize"
    /\ files' = [d \in DOMAIN files \cup {0} |->
                    IF d \in DOMAIN files THEN files[d] ELSE <<>>]
    /\ pc' = "done"
    /\ UNCHANGED <<variant, image, block_size, err, partitions, idx, blocks,
                   data_blocks, empty_blocks, hashes, partition_data,
                   output_hashes, io>>

Next ==
    \/ DecodeTable
    \/ ReadBlocks
    \/ ExtractDataBlocks
    \/ SaveBlocks
    \/ Visualize

Spec == Init /\ [][Next]_vars

-----------------------------------------------------------------------------
(* hash.py: the digests recomputed over a directory of saved blocks *)

\* compute_file_hash: sha256 updated chunk by chunk over the whole file, so
\* the digest of the file's content.
compute_file_hash(content) == <<"sha256", content>>

\* natsorted over the names block_<i>.bin: by the number i.  The names are
\* kept as their numbers, so this is the increasing order of a set of them.
natsorted(names) ==
    [k \in 1..Cardinality(names) |->
        CHOOSE x \in names : Cardinality({y \in names : y < x}) = k - 1]

\* read_bin_files_and_compute_hashes: one (file_name, file_hash) item per
\* .bin file of the directory, in natural order of the names.
read_bin_files_and_compute_hashes(dir) ==
    LET bin_files == natsorted(DOMAIN dir)
    IN  [k \in 1..Len(bin_files) |->
            [file_name |-> bin_files[k],
             file_hash |-> compute_file_hash(dir[bin_files[k]])]]

-----------------------------------------------------------------------------
(* The script run again with the same --output_dir *)

\* Images of the later runs: both tables, every content of the data region.
RescanInputs ==
    {[variant |-> "MBR", block_size |-> 4,
      image |-> MbrImage(t, <<85, 170>>, fills, 4, MbrFull(4))] :
        t \in SomeTables, fills \in AllFills}

InitRescan ==
    /\ \E in \in RescanInputs :
          /\ variant = in.variant
          /\ image = in.image
          /\ block_size = in.block_size
    /\ pc = "table"
    /\ err = "none"
    /\ partitions = <<>>
    /\ idx = 0
    /\ blocks = <<>>
    /\ data_blocks = <<>>
    /\ empty_blocks = 0
    /\ hashes = <<>>
    /\ partition_data = <<>>
    /\ output_hashes = <<>>
    /\ files = [d \in {} |-> <<>>]
    /\ io = <<>>

\* main() started anew after a completed run: its locals are fresh, the
\* output directory is as the earlier runs left it.
Rescan ==
    /\ pc = "done"
    /\ \E in \in RescanInputs :
          /\ variant' = in.variant
          /\ image' = in.image
          /\ block_size' = in.block_size
    /\ pc' = "table"
    /\ err' = "none"
    /\ partitions' = <<>>
    /\ idx' = 0
    /\ blocks' = <<>>
    /\ data_blocks' = <<>>
    /\ empty_blocks' = 0
    /\ hashes' = <<>>
    /\ partition_data' = <<>>
    /\ output_hashes' = <<>>
    /\ io' = <<>>
    /\ UNCHANGED files

NextRescan ==
    \/ Next
    \/ Rescan

SpecRescan == InitRescan /\ [][NextRescan]_vars

-----------------------------------------------------------------------------
(* What the image holds, read off its bytes directly *)

\* The little-endian unsigned value of the w bytes at offset off.
RECURSIVE FieldAt(_, _, _)
FieldAt(img, off, w) ==
    IF w = 0 THEN 0 ELSE ByteAt(img, off) + 256 * FieldAt(img, off + 1, w - 1)

\* The image holds "EFI PART" at offset 512.
SignatureIsEfiPart(img) ==
    /\ img.len >= 520
    /\ \A i \in 0..7 : ByteAt(img, 512 + i) = EFI_PART[i + 1]

\* The MBR slots whose sector count field is nonzero.
UsedSlots(img) == {i \in 0..3 : FieldAt(img, 446 + 16 * i + 12, 4) # 0}

\* The k-th element (k >= 1) of a finite set of integers, in increasing order.
Nth(S, k) == CHOOSE x \in S : Cardinality({y \in S : y < x}) = k - 1

\* Blocks a reader that stops at the first empty read gets for a descriptor.
BlocksRead(img, d, bs) ==
    IF d.total_sectors <= 0 THEN 0
    ELSE Min(d.total_sectors,
             (Max(img.len - d.start_sector * bs, 0) + bs - 1) \div bs)

\* Block j (from 0) of descriptor d holds a nonzero byte.
HoldsData(img, d, bs, j) ==
    \E o \in DOMAIN img.nz :
        /\ o >= d.start_sector * bs + j * bs
        /\ o < d.start_sector * bs + (j + 1) * bs

DataBlocksOf(img, d, bs) ==
    Cardinality({j \in 0..(BlocksRead(img, d, bs) - 1) : HoldsData(img, d, bs, j)})

HasNonZero(block) == \E i \in 1..Len(block) : block[i] # 0

IsSeek(op) == op[1] = "seek"

\* Descriptors whose blocks have been read so far.
Started == IF pc \in {"extract", "save"} THEN idx + 1 ELSE idx

-----------------------------------------------------------------------------
(* The claims *)

\* C1: read_blocks returns only whole blocks: every block it returns has
\* exactly block_size bytes, and for a sector count >= 0 it returns
\* min(sector_count, whole blocks available from start_sector*block_size).
C1_OnlyWholeBlocks ==
    (pc = "extract" /\ partitions[idx + 1].total_sectors >= 0) =>
        LET d == partitions[idx + 1]
        IN  /\ \A k \in 1..Len(blocks) : Len(blocks[k]) = block_size
            /\ Len(blocks) =
                 Min(d.total_sectors,
                     Max(image.len - d.start_sector * block_size, 0) \div block_size)

\* C2: on every image holding a 512-byte boot sector the MBR decoder succeeds
\* and returns exactly the slots whose sector count is nonzero, in slot
\* order, each with status = entry byte 0, start_sector = u32 at [8:12) and
\* total_sectors = u32 at [12:16); the bytes at offset 510 play no part.
C2_MbrDecodesUsedSlots ==
    (variant = "MBR" /\ pc # "table" /\ image.len >= 512) =>
        /\ err = "none"
        /\ Len(partitions) = Cardinality(UsedSlots(image))
        /\ \A k \in 1..Len(partitions) :
              LET off == 446 + 16 * Nth(UsedSlots(image), k)
              IN  partitions[k] = [status |-> ByteAt(image, off),
                                   start_sector |-> FieldAt(image, off + 8, 4),
                                   total_sectors |-> FieldAt(image, off + 12, 4)]

C2_Witness ==
    /\ variant = "MBR" /\ pc = "done" /\ image.len >= 512
    /\ Len(partitions) = 2
    /\ 0 \notin UsedSlots(image) /\ 3 \in UsedSlots(image)
    /\ \E i \in 0..3 : i \notin UsedSlots(image) /\ FieldAt(image, 446 + 16 * i + 8, 4) # 0

\* C3: on every image with "EFI PART" at offset 512 the GPT decoder returns,
\* in entry order, one descriptor per entry with start_lba # 0 and end_lba # 0
\* and skips every other entry without error.  Stated for the images that
\* hold the whole header and the whole entry array the header declares.
C3_GptDecodesWithoutError ==
    (/\ variant = "GPT" /\ pc # "table" /\ SignatureIsEfiPart(image)
     /\ image.len >= 512 + 92
     /\ image.len >= 512 * FieldAt(image, 512 + 72, 8)
                     + FieldAt(image, 512 + 80, 4) * FieldAt(image, 512 + 84, 4)) =>
        LET at == 512 * FieldAt(image, 512 + 72, 8)
            num == FieldAt(image, 512 + 80, 4)
            size == FieldAt(image, 512 + 84, 4)
            start(i) == FieldAt(image, at + i * size + 32, 8)
            end(i) == FieldAt(image, at + i * size + 40, 8)
            used == {i \in 0..(num - 1) : start(i) # 0 /\ end(i) # 0}
        IN  /\ err = "none"
            /\ Len(partitions) = Cardinality(used)
            /\ \A k \in 1..Len(partitions) :
                  partitions[k] =
                     [start_sector |-> start(Nth(used, k)),
                      total_sectors |-> end(Nth(used, k)) - start(Nth(used, k)) + 1]

\* C4: every summary's data_blocks + empty_blocks is the number of blocks
\* read, which is <= the requested sector count, and smaller only when the
\* image ends before start_sector*block_size + sector_count*block_size.
C4_CountsWithinRequest ==
    pc = "save" =>
        LET s == partition_data[Len(partition_data)]
        IN  /\ s.data_blocks + s.empty_blocks = Len(blocks)
            /\ Len(blocks) <= s.total_sectors
            /\ Len(blocks) < s.total_sectors =>
                  (s.start_sector + s.total_sectors) * block_size > image.len

\* C5: a block is counted empty iff all its bytes are zero; data_blocks is
\* the subsequence of blocks holding a nonzero byte, in read order; hashes
\* has one digest per data block, the i-th being the digest of the i-th data
\* block; no digest is made for an empty block.
C5_ClassifiesAndHashes ==
    pc = "save" =>
        /\ data_blocks = SelectSeq(blocks, HasNonZero)
        /\ empty_blocks = Cardinality({k \in 1..Len(blocks) : ~HasNonZero(blocks[k])})
        /\ Len(hashes) = Len(data_blocks)
        /\ \A i \in 1..Len(hashes) : hashes[i] = <<"sha256", data_blocks[i]>>

C5_Witness ==
    /\ pc = "save"
    /\ Len(blocks) = 3 /\ empty_blocks = 1
    /\ ~HasNonZero(blocks[2])
    /\ blocks[3][1] = 0 /\ HasNonZero(blocks[3])
    /\ hashes[2] = <<"sha256", blocks[3]>>

\* C6: whenever the 8 bytes at offset 512 are not "EFI PART" (or are not all
\* there) the GPT decoder fails with the invalid-GPT-signature error, having
\* done nothing on the file but seek to 512 and read the header.
C6_BadSignatureIsInvalidGpt ==
    (variant = "GPT" /\ pc # "table" /\ ~SignatureIsEfiPart(image)) =>
        /\ err = "ValueError: Invalid GPT header"
        /\ io = <<Seek(512), Read(92)>>

\* C7: the MBR decoder fails exactly when the image holds fewer than 512
\* bytes: for every length 0..511 it fails, and it fails in no other case.
C7_MbrFailsIffShort ==
    (variant = "MBR" /\ pc # "table") => (err # "none" <=> image.len < 512)

\* C8: when table decoding fails the scan ends with that error before any
\* partition is processed: no block is read, no summary is built, nothing is
\* written under the output directory.
C8_FatalBeforeAnyPartition ==
    (pc # "table" /\ read_partition_table(variant, image).err # "none") =>
        /\ pc = "failed"
        /\ err = read_partition_table(variant, image).err
        /\ io = read_partition_table(variant, image).io
        /\ blocks = <<>> /\ data_blocks = <<>> /\ hashes = <<>>
        /\ partition_data = <<>> /\ output_hashes = <<>>
        /\ DOMAIN files = {}

C8_Witness ==
    /\ pc = "failed" /\ variant = "MBR" /\ err = "struct.error"
    /\ image.len >= 462 /\ 0 \in UsedSlots(image)

\* C9: a scan fails only for an image too small or (GPT) a signature that is
\* not "EFI PART"; a GPT image with a valid signature never fails, whatever
\* its partition_entry_lba, num_partition_entries and partition_entry_size.
\* Stated generously: any GPT image cut inside its header or inside the
\* declared entry array counts as too small.
C9_OnlyTwoErrors ==
    err # "none" =>
        IF variant = "MBR" THEN image.len < 512
        ELSE \/ ~SignatureIsEfiPart(image)
             \/ image.len < 512 + 92
             \/ image.len < 512 * FieldAt(image, 512 + 72, 8)
                             + FieldAt(image, 512 + 80, 4) * FieldAt(image, 512 + 84, 4)

\* C10: a scan processes the descriptors in table order, one at a time: the
\* reads on the image are the decoder's, then one seek per started
\* descriptor, in table order; descriptor k+1 is started only when k has its
\* summary and its saved blocks; summary k has partition_id k, the k-th
\* descriptor's start_sector and total_sectors, and counts that depend on
\* the image and the k-th descriptor alone; a finished scan has one summary
\* per descriptor.
C10_TableOrderOneAtATime ==
    err = "none" =>
        LET seeks == SelectSeq(io, IsSeek)
            decoder == IF pc = "table" THEN 0 ELSE IF variant = "MBR" THEN 1 ELSE 2
        IN  /\ Len(seeks) = decoder + Started
            /\ \A k \in 1..Started :
                  seeks[decoder + k] = Seek(partitions[k].start_sector * block_size)
            /\ Len(partition_data) = (IF pc = "save" THEN idx + 1 ELSE idx)
            /\ Len(output_hashes) = Len(partition_data)
            /\ DOMAIN files \ {0} = 1..idx
            /\ pc = "done" => idx = Len(partitions)
            /\ \A k \in 1..Len(partition_data) :
                  /\ partition_data[k].partition_id = k
                  /\ partition_data[k].start_sector = partitions[k].start_sector
                  /\ partition_data[k].total_sectors = partitions[k].total_sectors
                  /\ partition_data[k].data_blocks =
                        DataBlocksOf(image, partitions[k], block_size)
                  /\ partition_data[k].empty_blocks =
                        BlocksRead(image, partitions[k], block_size)
                        - DataBlocksOf(image, partitions[k], block_size)
                  /\ Len(output_hashes[k]) = partition_data[k].data_blocks

C10_Witness ==
    /\ pc = "done" /\ err = "none"
    /\ Len(partition_data) = 3
    /\ partition_data[1].data_blocks # partition_data[2].data_blocks
    /\ partition_data[2].start_sector > partition_data[3].start_sector


\* C11: after any sequence of completed scans into the same output
\* directory, for every partition k of the latest scan the directory
\* partition_k_blocks holds exactly block_0.bin .. block_{n-1}.bin, n being
\* that scan's data_blocks for k, block_i.bin being the block whose digest is
\* the i-th of the partition's digest list; so the digests hash.py recomputes
\* over the directory are exactly that list.
C11_DirectoryMatchesLatestScan ==
    pc = "done" =>
        \A k \in 1..Len(partition_data) :
            /\ k \in DOMAIN files
            /\ DOMAIN files[k] = 0..(partition_data[k].data_blocks - 1)
            /\ \A i \in DOMAIN files[k] :
                  i + 1 \in DOMAIN output_hashes[k]
                  /\ <<"sha256", files[k][i]>> = output_hashes[k][i + 1]
            /\ LET h == read_bin_files_and_compute_hashes(files[k])
               IN  [j \in 1..Len(h) |-> h[j].file_hash] = output_hashes[k]

====
